---- MODULE Spec2Model ----
(***************************************************************************)
(* A model of backup-rs: the interval engine (config/src/interval.rs and   *)
(* interval/specifier.rs), the scheduling controller and the archive       *)
(* producer (backupper/src/backup.rs, common.rs) and the profile record    *)
(* (config/src/profile_config.rs).                                         *)
(*                                                                         *)
(* Datetimes (chrono::NaiveDateTime) are integers: seconds since           *)
(* 2019-01-01 00:00:00, so the order of datetimes is the order of the      *)
(* integers.  Option<T> is a sequence: <<>> is None and <<v>> is Some(v).   *)
(* A u32 is kept as its 32-bit pattern read as a signed integer, so that   *)
(* a wrapped subtraction (max - n with n > max) is the negative number     *)
(* max - n; u32 comparisons are the unsigned ones (ULt, ULe).              *)
(***************************************************************************)
EXTENDS Integers, Sequences, FiniteSets, TLC

VARIABLES
    \* ---- interval engine, applied as a pure function
    iv,             \* the Interval under test
    dt,             \* the datetime handed to next_datetime
    res,            \* [done, value]: next_datetime's result for (iv, dt)
    \* ---- scheduling controller (one profile, one process at a time)
    profile,        \* the in-memory ProfileConfig: [interval, next_backup]
    disk,           \* next_backup of the stored record <uuid>.json
    trigger,        \* start boundary of the registered OS task, Option
    now,            \* the wall clock
    pc,             \* position of handle_profile
    forced,         \* args.force of the running invocation
    decision,       \* is_scheduled's result <<update_next_backup, do_perform_backup>>
    invoked_at,     \* the clock when handle_profile was entered
    prev_next_backup, \* next_backup when handle_profile was entered
    advanced_at,    \* the clock read when next_backup was recomputed, Option
    backup_result,  \* "none", or what perform_backup returned
    stored,         \* "none" | "ok" | "err": the outcome of profile_config.store
    registered,     \* "none" | "ok" | "err": the outcome of schedule_backup
    target_dir,     \* state of profile.target_dir on the filesystem
    checked_dir,    \* target_dir as it was at the last availability check
    prompts,        \* retry dialogs opened by the running perform_backup
    archives,       \* archive files in target_dir (their minute stamps)
    productions,    \* perform_backup calls of the current clock minute that
                    \* ended having found target_dir a writable directory
    \* ---- archive producer past the availability loop
    cfg,            \* the profile's include and exclude lists
    apc,            \* position of perform_backup's archive part
    zip,            \* the set of paths written into the archive so far
    \* ---- restore
    listing,        \* the entries of target_dir: [kind, name]
    at,             \* the timestamp handed to restore
    rpc,            \* position of restore
    scan,           \* "none" | "ok" | "err": the outcome of fs::read_dir
    best,           \* find_backup_archive's result, Option of an entry
    restored,       \* the archive restore_from_backup was called with, Option
    \* ---- delete
    dpc,            \* position of delete
    delete_backups, \* the flag --remove-backups
    record,         \* whether the record <uuid>.json exists
    failed,         \* the steps of the running delete that returned an Err
    \* ---- one profile file while it is stored
    json_file,      \* the text of <uuid>.json, a sequence of tokens
    spc,            \* position of ProfileConfig::store
    \* ---- HTTP control plane
    profile_configs \* the records of the profiles directory: [name, uuid, interval]

ivars == <<iv, dt, res>>
hvars == <<profile, disk, trigger, now, pc, forced, decision, invoked_at,
           prev_next_backup, advanced_at, backup_result, stored, registered,
           target_dir, checked_dir, prompts, archives, productions>>
avars == <<cfg, apc, zip>>
rvars == <<listing, at, rpc, scan, best, restored>>
dvars == <<dpc, delete_backups, record, failed>>
\* the variables of the subcommands other than restore
svars == <<json_file, spc>>
\* the variables only the writer of a profile file and the server touch
xvars == <<svars, profile_configs>>
nrvars == <<dvars, xvars>>
ovars == <<rvars, nrvars>>
vars == <<ivars, hvars, avars, ovars>>

\* --------------------------------------------------------------- Option
None == <<>>
Some(v) == <<v>>
IsSome(o) == o # <<>>
Unwrap(o) == o[1]

\* ------------------------------------------------------------------ u32
\* a < b for two u32 values kept as their signed 32-bit pattern
ULt(a, b) == IF (a < 0) = (b < 0) THEN a < b ELSE b < 0
ULe(a, b) == a = b \/ ULt(a, b)

\* ------------------------------------------------------ bounds of the model
\* days of the calendar the model tabulates, counted from 2019-01-01
CalendarDays == 1300
\* last day, counted from 2019-01-01, of a datetime handed to next_datetime
MaxProbeDay == 828
\* Retry answers a single perform_backup may be given
MaxPrompts == 2
\* last day, counted from 2019-01-01, of a stored next_backup that
\* handle_profile is still invoked with (the fallback adds 365 days each time)
MaxBackupDay == 500

\* ------------------------------------------------- chrono's calendar
IsLeap(y) == (y % 4 = 0 /\ y % 100 # 0) \/ y % 400 = 0
DaysInYear(y) == IF IsLeap(y) THEN 366 ELSE 365
DaysInMonth(y, m0) ==
    IF m0 = 1 THEN (IF IsLeap(y) THEN 29 ELSE 28)
    ELSE IF m0 \in {3, 5, 8, 10} THEN 30 ELSE 31

RECURSIVE YearFrom(_, _)
\* <<year, ordinal0>> of day d counted from 1 January of year y
YearFrom(d, y) ==
    IF d < DaysInYear(y) THEN <<y, d>> ELSE YearFrom(d - DaysInYear(y), y + 1)

RECURSIVE MonthFrom(_, _, _)
\* <<month0, day0>> of the ordinal0 o of year y, counted from month m0
MonthFrom(y, o, m0) ==
    IF o < DaysInMonth(y, m0) THEN <<m0, o>>
    ELSE MonthFrom(y, o - DaysInMonth(y, m0), m0 + 1)

\* date.weekday().num_days_from_monday(): 2019-01-01 is a Tuesday
num_days_from_monday(d) == (d + 1) % 7

\* ISO weeks of year y, whose 1 January is the weekday jan1 (0 = Monday)
WeeksInYear(y, jan1) ==
    IF jan1 = 3 \/ (IsLeap(y) /\ jan1 = 2) THEN 53 ELSE 52

\* date.iso_week().week0()
week0(d) ==
    LET yo == YearFrom(d, 2019)
        y == yo[1]
        o == yo[2]
        wd == num_days_from_monday(d)
        w == (o + 1 - (wd + 1) + 10) \div 7
        jan1 == num_days_from_monday(d - o)
        prevJan1 == (jan1 + 7 * 53 - DaysInYear(y - 1)) % 7
    IN  IF w < 1 THEN WeeksInYear(y - 1, prevJan1) - 1
        ELSE IF w > WeeksInYear(y, jan1) THEN 0
        ELSE w - 1

Civil(d) ==
    LET yo == YearFrom(d, 2019)
        md == MonthFrom(yo[1], yo[2], 0)
    IN  [year |-> yo[1], month0 |-> md[1], day0 |-> md[2],
         weekday |-> num_days_from_monday(d), week0 |-> week0(d)]

\* the calendar, tabulated once
Calendar == [d \in 0..CalendarDays |-> Civil(d)]

\* NaiveDateTime: date(), time(), and_time(), and the fields of the time
Date(t) == t \div 86400
Time(t) == t % 86400
and_time(d, secs) == d * 86400 + secs
hour(secs) == secs \div 3600
minute(secs) == (secs % 3600) \div 60
DT(d, h, m, s) == d * 86400 + h * 3600 + m * 60 + s

\* NaiveTime::from_hms_opt: None unless hour < 24, minute < 60, second < 60
from_hms_opt(h, m, s) ==
    IF ULt(h, 24) /\ ULt(m, 60) /\ ULt(s, 60)
    THEN Some(h * 3600 + m * 60 + s) ELSE None

\* ---------------------------------------------------------- SpecifierKind
KNone == [tag |-> "None", n |-> 0, offset |-> 0, values |-> <<>>]
KAll == [tag |-> "All", n |-> 0, offset |-> 0, values |-> <<>>]
KFirst == [tag |-> "First", n |-> 0, offset |-> 0, values |-> <<>>]
KLast == [tag |-> "Last", n |-> 0, offset |-> 0, values |-> <<>>]
KNth(n) == [tag |-> "Nth", n |-> n, offset |-> 0, values |-> <<>>]
KBackNth(n) == [tag |-> "BackNth", n |-> n, offset |-> 0, values |-> <<>>]
KExplicitNths(l) == [tag |-> "ExplicitNths", n |-> 0, offset |-> 0, values |-> l]
KEveryNth(n, off) == [tag |-> "EveryNth", n |-> n, offset |-> off, values |-> <<>>]
KExplicitList(l) == [tag |-> "ExplicitList", n |-> 0, offset |-> 0, values |-> l]

RECURSIVE SortedSeq(_)
\* the elements of a finite set of naturals, ascending
SortedSeq(S) ==
    IF S = {} THEN <<>>
    ELSE LET m == CHOOSE x \in S : \A y \in S : x <= y
         IN  <<m>> \o SortedSeq(S \ {m})

\* values.filter(keep); sort_unstable(); dedup()
Normalized(l, lo, hi) ==
    SortedSeq({l[i] : i \in {j \in 1..Len(l) : ULe(lo, l[j]) /\ ULe(l[j], hi)}})

\* Specifier::new
SpecifierNew(min, max, kind) ==
    LET lo == IF ULt(max, min) THEN max ELSE min
        hi == IF ULt(max, min) THEN min ELSE max
        k == IF kind.tag = "ExplicitList"
               THEN KExplicitList(Normalized(kind.values, lo, hi))
             ELSE IF kind.tag = "ExplicitNths"
               THEN KExplicitNths(Normalized(kind.values, 0, hi - lo))
             ELSE kind
    IN  [min |-> lo, max |-> hi, kind |-> k]

range_len(s) == s.max - s.min + 1

is_in_range(s, x) == ULe(s.min, x) /\ ULe(x, s.max)

\* a matches that looks at the range alone
matches_in_range(s, x) == ULe(s.min, x) /\ ULe(x, s.max)

\* Specifier::matches
matches(s, x) ==
    IF ~is_in_range(s, x) THEN FALSE
    ELSE CASE s.kind.tag = "None" -> FALSE
           [] s.kind.tag = "All" -> TRUE
           [] s.kind.tag = "First" -> x = s.min
           [] s.kind.tag = "Last" -> x = s.max
           [] s.kind.tag = "Nth" -> s.min + s.kind.n = x
           [] s.kind.tag = "BackNth" -> s.max - s.kind.n = x
           [] s.kind.tag = "ExplicitNths" ->
                \E i \in 1..Len(s.kind.values) : s.min + s.kind.values[i] = x
           [] s.kind.tag = "EveryNth" ->
                LET min_offset == s.min + s.kind.offset
                IN  IF ULt(s.max, min_offset) \/ ULt(x, min_offset) THEN FALSE
                    ELSE IF s.kind.n = 0 THEN x = min_offset
                    ELSE (x - min_offset) % s.kind.n = 0
           [] s.kind.tag = "ExplicitList" ->
                \E i \in 1..Len(s.kind.values) : s.kind.values[i] = x

\* slice::binary_search on a sorted list: <<found, index0>>
binary_search(l, x) ==
    IF \E i \in 1..Len(l) : l[i] = x
    THEN <<TRUE, (CHOOSE i \in 1..Len(l) : l[i] = x) - 1>>
    ELSE <<FALSE, Cardinality({i \in 1..Len(l) : ULt(l[i], x)})>>

\* Specifier::cyclic_next
cyclic_next(s, x) ==
    IF ~is_in_range(s, x) THEN None
    ELSE CASE s.kind.tag = "None" -> None
           [] s.kind.tag = "All" ->
                Some(s.min + ((x - s.min + 1) % range_len(s)))
           [] s.kind.tag = "First" -> Some(s.min)
           [] s.kind.tag = "Last" -> Some(s.max)
           [] s.kind.tag = "Nth" ->
                LET val == s.min + s.kind.n
                IN  IF ULe(val, s.max) THEN Some(val) ELSE None
           [] s.kind.tag = "BackNth" ->
                LET val == s.max - s.kind.n
                IN  IF ULe(s.min, val) THEN Some(val) ELSE None
           [] s.kind.tag = "ExplicitNths" ->
                LET l == s.kind.values
                    later == {i \in 1..Len(l) : ULt(x, s.min + l[i])}
                IN  IF l = <<>> THEN None
                    ELSE IF later # {}
                      THEN Some(s.min + l[(CHOOSE i \in later : \A j \in later : i <= j)])
                    ELSE Some(s.min + l[1])
           [] s.kind.tag = "EveryNth" ->
                LET min_offset == s.min + s.kind.offset
                    \* ((x - min_offset) / n + 0.5).round(), for x >= min_offset
                    i_round_up == (x - min_offset) \div s.kind.n + 1
                    candidate == min_offset + i_round_up * s.kind.n
                IN  IF ULt(s.max, min_offset) THEN None
                    ELSE IF s.kind.n = 0 THEN Some(min_offset)
                    ELSE IF ULt(x, min_offset) THEN Some(min_offset)
                    ELSE IF ULe(candidate, s.max) THEN Some(candidate)
                    ELSE Some(min_offset)
           [] s.kind.tag = "ExplicitList" ->
                LET l == s.kind.values
                    bs == binary_search(l, x)
                    target_index == IF bs[1] THEN bs[2] + 1 ELSE bs[2]
                IN  IF l = <<>> THEN None
                    ELSE IF Len(l) > target_index THEN Some(l[target_index + 1])
                    ELSE Some(l[1])

\* Specifier::first_match
first_match(s) == cyclic_next(s, s.max)

\* --------------------------------------------------------------- Interval
MINUTES_RANGE == <<0, 59>>
HOURS_RANGE == <<0, 23>>
WEEKDAYS_RANGE == <<0, 6>>
MONTHDAYS_RANGE == <<0, 31>>
WEEKS_RANGE == <<0, 52>>
MONTHS_RANGE == <<0, 11>>

\* IntervalBuilder: every axis over its canonical range
IntervalBuild(mi, ho, wd, md, wk, mo) ==
    [minutes |-> SpecifierNew(MINUTES_RANGE[1], MINUTES_RANGE[2], mi),
     hours |-> SpecifierNew(HOURS_RANGE[1], HOURS_RANGE[2], ho),
     weekdays |-> SpecifierNew(WEEKDAYS_RANGE[1], WEEKDAYS_RANGE[2], wd),
     monthdays |-> SpecifierNew(MONTHDAYS_RANGE[1], MONTHDAYS_RANGE[2], md),
     weeks |-> SpecifierNew(WEEKS_RANGE[1], WEEKS_RANGE[2], wk),
     months |-> SpecifierNew(MONTHS_RANGE[1], MONTHS_RANGE[2], mo)]

\* a matches_date that wants the weekday and the monthday both matched
matches_date_all_axes(i, date) ==
    /\ matches(i.weekdays, Calendar[date].weekday)
    /\ matches(i.monthdays, Calendar[date].day0)
    /\ matches(i.weeks, Calendar[date].week0)
    /\ matches(i.months, Calendar[date].month0)

\* Interval::matches_date
matches_date(i, date) ==
    LET c == Calendar[date]
        weekday_match == matches(i.weekdays, c.weekday)
        monthday_match == matches(i.monthdays, c.day0)
        day_match == IF i.weekdays.kind # KAll /\ i.monthdays.kind # KAll
                     THEN weekday_match \/ monthday_match
                     ELSE weekday_match /\ monthday_match
        week_match == matches(i.weeks, c.week0)
        month_match == matches(i.months, c.month0)
    IN  day_match /\ week_match /\ month_match

\* Interval::matches_time
matches_time(i, time) ==
    matches(i.minutes, minute(time)) /\ matches(i.hours, hour(time))

\* Interval::matches_datetime
matches_datetime(i, datetime) ==
    IF ~matches_date(i, Date(datetime)) THEN "DateNotMatched"
    ELSE IF ~matches_time(i, Time(datetime)) THEN "TimeNotMatched"
    ELSE "Ok"

\* a cyclic_next_daytime that never leaves the hour of `time`
next_hour_and_minute_keep_hour(i, time, hour_matches, next_minute) ==
    from_hms_opt(hour(time), next_minute, 0)

\* Interval::cyclic_next_daytime past `next_minute`: the hour, and the time
next_hour_and_minute(i, time, hour_matches, next_minute) ==
    LET next_hour == IF hour_matches /\ ULt(minute(time), next_minute)
                     THEN Some(hour(time))
                     ELSE cyclic_next(i.hours, hour(time))
    IN  IF ~IsSome(next_hour) THEN None
        ELSE from_hms_opt(Unwrap(next_hour), next_minute, 0)

\* a cyclic_next_daytime that restarts the minutes in every hour
cyclic_next_daytime_first_minute(i, time) ==
    LET next_minute == first_match(i.minutes)
    IN  IF ~IsSome(next_minute) THEN None
        ELSE next_hour_and_minute(i, time, matches(i.hours, hour(time)),
                                  Unwrap(next_minute))

\* Interval::cyclic_next_daytime
cyclic_next_daytime(i, time) ==
    LET hour_matches == matches(i.hours, hour(time))
        next_minute == IF hour_matches
                       THEN cyclic_next(i.minutes, minute(time))
                       ELSE first_match(i.minutes)
    IN  IF ~IsSome(next_minute) THEN None
        ELSE next_hour_and_minute(i, time, hour_matches, Unwrap(next_minute))

\* Interval::next_daytime
next_daytime(i, time) ==
    LET cyclic_next_match == cyclic_next_daytime(i, time)
    IN  IF ~IsSome(cyclic_next_match) THEN None
        ELSE IF Unwrap(cyclic_next_match) <= time THEN None
        ELSE cyclic_next_match

RECURSIVE FirstMatchingDate(_, _, _)
\* the first date of lo..hi that matches_date accepts, found by halving the
\* range, left half first (the order in which the loop visits the dates)
FirstMatchingDate(i, lo, hi) ==
    IF lo > hi THEN None
    ELSE IF lo = hi THEN (IF matches_date(i, lo) THEN Some(lo) ELSE None)
    ELSE LET mid == (lo + hi) \div 2
             left == FirstMatchingDate(i, lo, mid)
         IN  IF IsSome(left) THEN left ELSE FirstMatchingDate(i, mid + 1, hi)

\* a scan of the dates that gives up after one week
NextMatchingDateWithinWeek(i, curr_date, count) ==
    FirstMatchingDate(i, curr_date, curr_date + 6)

\* the loop of next_datetime: `count` dates from curr_date on are tried
NextMatchingDate(i, curr_date, count) ==
    FirstMatchingDate(i, curr_date, curr_date + count - 1)

\* next_date_and_time without the test `next_time > datetime.time()`: a
\* matching date is kept whatever cyclic_next_daytime wrapped around to
next_date_and_time_same_date(i, datetime, date_matches, next_time) ==
    LET next_date == IF date_matches
                     THEN Some(Date(datetime))
                     ELSE NextMatchingDate(i, Date(datetime) + 1, 365)
    IN  IF ~IsSome(next_date) THEN None
        ELSE Some(and_time(Unwrap(next_date), next_time))

\* Interval::next_datetime past `next_time`: the date, and the datetime
next_date_and_time(i, datetime, date_matches, next_time) ==
    LET next_date == IF date_matches /\ next_time > Time(datetime)
                     THEN Some(Date(datetime))
                     ELSE NextMatchingDate(i, Date(datetime) + 1, 365)
    IN  IF ~IsSome(next_date) THEN None
        ELSE Some(and_time(Unwrap(next_date), next_time))

\* Interval::next_datetime
next_datetime(i, datetime) ==
    LET date_matches == matches_date(i, Date(datetime))
        next_time == IF date_matches
                     THEN cyclic_next_daytime(i, Time(datetime))
                     ELSE cyclic_next_daytime(i, Unwrap(from_hms_opt(23, 59, 59)))
    IN  IF ~IsSome(next_time) THEN None
        ELSE next_date_and_time(i, datetime, date_matches, Unwrap(next_time))

\* ------------------------------------------- the interval engine, applied
\* kinds of the minutes axis: every variant, in and out of range
MinuteKinds ==
    {KAll, KNone, KFirst, KLast, KNth(30), KNth(75), KBackNth(70),
     KEveryNth(10, 0), KEveryNth(0, 5), KExplicitList(<<40, 30, 40, 99>>),
     KExplicitNths(<<>>)}

HourKinds ==
    {KAll, KFirst, KLast, KNth(12), KExplicitList(<<10, 5>>), KEveryNth(7, 2)}

\* <<weekdays, monthdays, weeks, months>>
DateKinds ==
    {<<KAll, KAll, KAll, KAll>>,
     <<KAll, KNth(28), KAll, KNth(1)>>,                \* 29 February
     <<KAll, KFirst, KAll, KNth(2)>>,                  \* 1 March
     <<KExplicitNths(<<6, 0>>), KNth(12), KAll, KAll>>, \* Mon, Sun or the 13th
     <<KNth(0), KAll, KAll, KAll>>,                    \* Mondays
     <<KAll, KAll, KEveryNth(2, 0), KAll>>,            \* every second week
     <<KAll, KAll, KLast, KAll>>,                      \* the 53rd ISO week
     <<KAll, KLast, KAll, KAll>>,                      \* monthday 31 of 0..31
     <<KAll, KBackNth(1), KAll, KExplicitList(<<0, 11>>)>>,
     <<KAll, KAll, KAll, KNone>>}

Intervals ==
    {IntervalBuild(mi, ho, dk[1], dk[2], dk[3], dk[4]) :
        mi \in MinuteKinds, ho \in HourKinds, dk \in DateKinds}

ProbeDays == {d \in {58, 59, 362, 364, 423, 424, 425, 730, 828} : d <= MaxProbeDay}
                \cup {MaxProbeDay}
ProbeTimes == {0, 30, 5 * 3600 + 30 * 60, 10 * 3600 + 45 * 60 + 10,
               12 * 3600, 23 * 3600 + 59 * 60, 23 * 3600 + 59 * 60 + 59}
Probes == {and_time(d, t) : d \in ProbeDays, t \in ProbeTimes}

\* the controller's variables other than the profile, the clock and the flag
HandleRest ==
    /\ disk = 0 /\ trigger = None /\ pc = "idle"
    /\ decision = <<FALSE, FALSE>> /\ invoked_at = 0 /\ prev_next_backup = 0
    /\ advanced_at = None /\ backup_result = "none" /\ stored = "none"
    /\ registered = "none" /\ target_dir = "missing" /\ checked_dir = "missing"
    /\ prompts = 0 /\ archives = {} /\ productions = 0

HandleIdle ==
    /\ profile = [interval |-> IntervalBuild(KAll, KAll, KAll, KAll, KAll, KAll),
                  next_backup |-> 0]
    /\ now = 0 /\ forced = FALSE
    /\ HandleRest

\* restore is not running
RestoreIdle ==
    /\ listing = {} /\ at = 0 /\ rpc = "idle" /\ scan = "none"
    /\ best = <<>> /\ restored = <<>>

\* delete is not running
DeleteIdle ==
    /\ dpc = "idle" /\ delete_backups = FALSE /\ record = TRUE /\ failed = {}

\* no profile file is being written and the server has no profile
ServerIdle ==
    /\ json_file = <<>> /\ spc = "idle" /\ profile_configs = {}

\* the other subcommands are not running
OthersIdle == RestoreIdle /\ DeleteIdle /\ ServerIdle

ArchiveIdle ==
    /\ cfg = [files_to_include |-> {}, dirs_to_include |-> {},
              files_to_exclude |-> {}, dirs_to_exclude |-> {}]
    /\ apc = "idle" /\ zip = {}

Pending == [done |-> FALSE, value |-> None]

InitInterval ==
    /\ iv \in Intervals
    /\ dt \in Probes
    /\ res = Pending
    /\ HandleIdle
    /\ ArchiveIdle
    /\ OthersIdle

\* apply next_datetime to the interval and the datetime drawn
ApplyNextDatetime ==
    /\ ~res.done
    /\ res' = [done |-> TRUE, value |-> next_datetime(iv, dt)]
    /\ UNCHANGED <<iv, dt, hvars, avars, ovars>>

NextInterval == ApplyNextDatetime

SpecInterval == InitInterval /\ [][NextInterval]_vars

\* C10: whenever next_datetime(t) returns some u, u is strictly later than t
\* (t with any seconds component).
C10_NextIsLater == (res.done /\ IsSome(res.value)) => Unwrap(res.value) > dt

\* next_datetime returned a value for a datetime with a seconds component
\* whose own minute is matched by the interval
C10_Witness ==
    /\ res.done
    /\ IsSome(res.value)
    /\ dt % 60 # 0
    /\ matches_datetime(iv, dt) = "Ok"

\* C11: whenever next_datetime(t) returns some u, matches_datetime(u) is Ok
\* and u has its seconds at zero.
C11_ResultMatches ==
    (res.done /\ IsSome(res.value)) =>
        /\ matches_datetime(iv, Unwrap(res.value)) = "Ok"
        /\ Unwrap(res.value) % 60 = 0

\* next_datetime returned a value on a later date, from a datetime whose hour
\* the interval does not match
C11_Witness ==
    /\ res.done
    /\ IsSome(res.value)
    /\ Date(Unwrap(res.value)) > Date(dt)
    /\ ~matches(iv.hours, hour(Time(dt)))

\* the times of day, in seconds, whose minute the interval matches
MatchedTimes(i) ==
    {t \in {h * 3600 + m * 60 : h \in 0..23, m \in 0..59} : matches_time(i, t)}

\* some whole minute v with after < v < before has matches_datetime(v) = Ok
MatchedAfterBefore(i, after, before) ==
    /\ \E m \in 0..59 : matches(i.minutes, m)
    /\ \E d \in Date(after)..Date(before) :
          /\ matches_date(i, d)
          /\ \E h \in 0..23 :
                /\ matches(i.hours, h)
                /\ \E m \in 0..59 :
                      /\ after < DT(d, h, m, 0)
                      /\ DT(d, h, m, 0) < before
                      /\ matches_datetime(i, DT(d, h, m, 0)) = "Ok"

\* C12: the value u returned by next_datetime(dt) is the smallest matching
\* instant after dt: no whole minute v with dt < v < u has
\* matches_datetime(v) = Ok.
C12_NoEarlierMatch ==
    (res.done /\ IsSome(res.value)) =>
        ~MatchedAfterBefore(iv, dt, Unwrap(res.value))

\* next_datetime skipped dates of another year to reach its result
C12_Witness ==
    /\ res.done
    /\ IsSome(res.value)
    /\ Date(Unwrap(res.value)) > Date(dt) + 300
    /\ Time(Unwrap(res.value)) > 0

C30_AsWritten ==
    (res.done /\ iv = IntervalBuild(KAll, KAll, KAll, KLast, KAll, KAll))
        => IsSome(res.value)

\* ------------------------------------------------- matches_date, applied
WeekdayKinds == {KAll, KNone, KNth(0), KLast, KExplicitNths(<<6, 0>>)}
MonthdayKinds == {KAll, KFirst, KNth(12), KLast, KBackNth(1), KEveryNth(7, 0)}
WeekKinds == {KAll, KFirst, KLast, KEveryNth(2, 0)}
MonthKinds == {KAll, KNone, KNth(1), KExplicitList(<<0, 11>>)}

DateIntervals ==
    {IntervalBuild(KAll, KAll, wd, md, wk, mo) :
        wd \in WeekdayKinds, md \in MonthdayKinds,
        wk \in WeekKinds, mo \in MonthKinds}

\* dates around the turn of 2019, 29 February 2020 and the turn of 2020
DateProbes == (355..375) \cup (415..430) \cup (720..740)

InitDate ==
    /\ iv \in DateIntervals
    /\ dt \in {and_time(d, 12 * 3600) : d \in DateProbes}
    /\ res = Pending
    /\ HandleIdle
    /\ ArchiveIdle
    /\ OthersIdle

\* apply matches_date to the interval and the date drawn
ApplyMatchesDate ==
    /\ ~res.done
    /\ res' = [done |-> TRUE, value |-> Some(matches_date(iv, Date(dt)))]
    /\ UNCHANGED <<iv, dt, hvars, avars, ovars>>

NextDate == ApplyMatchesDate

SpecDate == InitDate /\ [][NextDate]_vars

\* the zero-based ISO week of date d: its Thursday's ordinal in the
\* Thursday's year, in whole weeks
IsoWeek0(d) == YearFrom(d - num_days_from_monday(d) + 3, 2019)[2] \div 7

\* the day test of C14: either axis when neither is All, both otherwise
DayMatch(i, d) ==
    IF i.weekdays.kind.tag # "All" /\ i.monthdays.kind.tag # "All"
    THEN \/ matches(i.weekdays, Calendar[d].weekday)
         \/ matches(i.monthdays, Calendar[d].day0)
    ELSE /\ matches(i.weekdays, Calendar[d].weekday)
         /\ matches(i.monthdays, Calendar[d].day0)

\* C14: matches_date(d) is true exactly when day_match, week_match and
\* month_match all hold: week_match on the zero-based ISO week of d,
\* month_match on the zero-based month, day_match the disjunction of the
\* weekday and zero-based monthday tests when neither specifier is All and
\* their conjunction otherwise.
C14_MatchesDate ==
    res.done =>
        (Unwrap(res.value) <=>
            /\ DayMatch(iv, Date(dt))
            /\ matches(iv.weeks, IsoWeek0(Date(dt)))
            /\ matches(iv.months, Calendar[Date(dt)].month0))

\* a date matched through its weekday alone, in the last days of a year
\* that belong to the first ISO week of the next
C14_Witness ==
    /\ res.done
    /\ Unwrap(res.value)
    /\ iv.weekdays.kind.tag # "All"
    /\ iv.monthdays.kind.tag # "All"
    /\ ~matches(iv.monthdays, Calendar[Date(dt)].day0)
    /\ iv.weeks.kind = KFirst
    /\ Calendar[Date(dt)].month0 = 11

\* ------------------------------------------------- the Specifier, applied
\* the values handed to matches and cyclic_next are 0..MaxValue
MaxValue == 10

SpecifierRanges == {<<0, 5>>, <<3, 8>>, <<4, 4>>, <<8, 3>>}

SpecifierKinds ==
    {KNone, KAll, KFirst, KLast}
    \cup {KNth(n) : n \in {0, 2, 5, 6, 9}}
    \cup {KBackNth(n) : n \in {0, 2, 5, 6, 9}}
    \cup {KExplicitNths(l) : l \in {<<>>, <<0>>, <<4, 1, 4>>, <<7, 2>>}}
    \cup {KEveryNth(n, off) : n \in {0, 1, 2, 3, 7}, off \in {0, 1, 5, 6}}
    \cup {KExplicitList(l) : l \in {<<>>, <<3>>, <<8, 4, 4, 0>>, <<5, 7, 3>>}}

Specifiers ==
    {SpecifierNew(r[1], r[2], k) : r \in SpecifierRanges, k \in SpecifierKinds}

\* `max - n` of the BackNth arm underflows u32: a panic where the build
\* checks overflow, a wrapped value where it does not
panics(s, x, overflow_checks) ==
    /\ overflow_checks
    /\ is_in_range(s, x)
    /\ s.kind.tag = "BackNth"
    /\ ULt(s.max, s.kind.n)

\* Specifier::matches as it ends: with a panic or with a boolean
matches_outcome(s, x, overflow_checks) ==
    IF panics(s, x, overflow_checks)
    THEN [panicked |-> TRUE, value |-> FALSE]
    ELSE [panicked |-> FALSE, value |-> matches(s, x)]

\* Specifier::cyclic_next as it ends: with a panic or with an Option
cyclic_next_outcome(s, x, overflow_checks) ==
    IF panics(s, x, overflow_checks)
    THEN [panicked |-> TRUE, value |-> None]
    ELSE [panicked |-> FALSE, value |-> cyclic_next(s, x)]

InitSpecifier ==
    /\ iv \in [spec : Specifiers, overflow_checks : BOOLEAN]
    /\ dt = 0
    /\ res = Pending
    /\ HandleIdle
    /\ ArchiveIdle
    /\ OthersIdle

\* apply matches and cyclic_next of the specifier drawn to every value
ApplySpecifier ==
    /\ ~res.done
    /\ res' = [done |-> TRUE,
               value |-> [matches |-> [x \in 0..MaxValue |->
                              matches_outcome(iv.spec, x, iv.overflow_checks)],
                          cyclic_next |-> [x \in 0..MaxValue |->
                              cyclic_next_outcome(iv.spec, x, iv.overflow_checks)]]]
    /\ UNCHANGED <<iv, dt, hvars, avars, ovars>>

NextSpecifier == ApplySpecifier

SpecSpecifier == InitSpecifier /\ [][NextSpecifier]_vars

\* the in-range predecessor of x: x - 1, wrapping from min to max
Prev(s, x) == IF x = s.min THEN s.max ELSE x - 1

\* matches(x) returned true
Matched(x) ==
    ~res.value.matches[x].panicked /\ res.value.matches[x].value

\* cyclic_next(x) returned the Option o
NextIs(x, o) ==
    ~res.value.cyclic_next[x].panicked /\ res.value.cyclic_next[x].value = o

Least(S) == CHOOSE y \in S : \A z \in S : y <= z

\* what C16 has cyclic_next(x) return, given the values matched
NextAsWritten(s, x) ==
    LET all == {y \in s.min..s.max : Matched(y)}
        later == {y \in all : y > x}
    IN  IF x < s.min \/ x > s.max THEN None
        ELSE IF later # {} THEN Some(Least(later))
        ELSE IF all # {} THEN Some(Least(all))
        ELSE None

\* C16 as written: for every kind and every x in [min, max], cyclic_next(x)
\* is the smallest y > x with matches(y), or else the smallest matching
\* value of the range; none when no value of the range matches, and none
\* for every x outside [min, max].
C16_AsWritten ==
    res.done =>
        \A x \in 0..MaxValue : NextIs(x, NextAsWritten(iv.spec, x))

\* C27 as written: a Specifier of kind Nth(n) or BackNth(n) with
\* n > max - min is the empty predicate: for every x in [min, max], matches(x)
\* returns false and cyclic_next(x) returns none, and neither panics on
\* min + n or max - n.
C27_AsWritten ==
    (res.done /\ iv.spec.kind.tag \in {"Nth", "BackNth"}
        /\ iv.spec.kind.n > iv.spec.max - iv.spec.min)
    => \A x \in iv.spec.min..iv.spec.max :
           /\ res.value.matches[x] = [panicked |-> FALSE, value |-> FALSE]
           /\ res.value.cyclic_next[x] = [panicked |-> FALSE, value |-> None]

\* ---------------------------------------------------------- ProfileConfig
\* NaiveDateTime::checked_add_days(Days::new(days)); chrono's last date is
\* far beyond the calendar of this model, so the sum is always there
checked_add_days(t, days) == Some(t + days * 86400)

\* match on an Option: its value, or the value of the None arm
match_some_or(option, none_arm) == IF IsSome(option) THEN Unwrap(option) ELSE none_arm

\* get_next_scheduled whose fallback keeps next_backup as it is
get_next_scheduled_keep(p, from_datetime) ==
    LET base == IF IsSome(from_datetime) THEN Unwrap(from_datetime)
                ELSE p.next_backup
    IN  match_some_or(next_datetime(p.interval, base), p.next_backup)

\* ProfileConfig::get_next_scheduled
get_next_scheduled(p, from_datetime) ==
    LET base == IF IsSome(from_datetime) THEN Unwrap(from_datetime)
                ELSE p.next_backup
    IN  match_some_or(next_datetime(p.interval, base),
                      match_some_or(checked_add_days(p.next_backup, 365),
                                    p.next_backup))

\* is_scheduled past `scheduled`: whether a match was skipped
skipped_match(i, next_backup, scheduled, clock) ==
    LET next_backup_matches == matches_datetime(i, next_backup) = "Ok"
        scheduled_matches == matches_datetime(i, scheduled) = "Ok"
        skipped_scheduled == scheduled <= clock
    IN  next_backup_matches \/ (skipped_scheduled /\ scheduled_matches)

\* is_scheduled with `scheduled` taken from the clock instead of next_backup
is_scheduled_from_now(p, is_forced, clock) ==
    IF is_forced THEN <<TRUE, TRUE>>
    ELSE IF clock < p.next_backup THEN <<FALSE, FALSE>>
    ELSE <<TRUE, skipped_match(p.interval, p.next_backup,
                               get_next_scheduled(p, Some(clock)), clock)>>

\* is_scheduled without the test of next_backup itself
is_scheduled_only_skipped(p, is_forced, clock) ==
    IF is_forced THEN <<TRUE, TRUE>>
    ELSE IF clock < p.next_backup THEN <<FALSE, FALSE>>
    ELSE <<TRUE, /\ get_next_scheduled(p, None) <= clock
                 /\ matches_datetime(p.interval, get_next_scheduled(p, None)) = "Ok">>

\* is_scheduled without the early return for a forced invocation
is_scheduled_unforced(p, is_forced, clock) ==
    IF clock < p.next_backup THEN <<FALSE, FALSE>>
    ELSE <<TRUE, skipped_match(p.interval, p.next_backup,
                               get_next_scheduled(p, None), clock)>>

\* is_scheduled that has next_backup updated before it is due
is_scheduled_early_update(p, is_forced, clock) ==
    IF is_forced THEN <<TRUE, TRUE>>
    ELSE IF clock < p.next_backup THEN <<TRUE, FALSE>>
    ELSE <<TRUE, skipped_match(p.interval, p.next_backup,
                               get_next_scheduled(p, None), clock)>>

\* is_scheduled: <<update_next_backup, do_perform_backup>>; `clock` is the
\* value offset::Local::now() returns inside
is_scheduled(p, is_forced, clock) ==
    IF is_forced THEN <<TRUE, TRUE>>
    ELSE IF clock < p.next_backup THEN <<FALSE, FALSE>>
    ELSE <<TRUE, skipped_match(p.interval, p.next_backup,
                               get_next_scheduled(p, None), clock)>>

\* --------------------------------------------- is_scheduled, applied
\* <<minutes, hours, weekdays, monthdays, weeks, months>>
ScheduleKinds ==
    {<<KFirst, KAll, KAll, KAll, KAll, KAll>>,              \* every full hour
     <<KAll, KAll, KAll, KAll, KAll, KAll>>,                \* every minute
     <<KNth(30), KNth(5), KAll, KAll, KAll, KAll>>,         \* daily 05:30
     <<KFirst, KFirst, KAll, KNth(28), KAll, KNth(1)>>,     \* 29 February 00:00
     <<KFirst, KFirst, KAll, KFirst, KAll, KNth(2)>>,       \* 1 March 00:00
     <<KFirst, KNth(12), KNth(0), KAll, KAll, KAll>>,       \* Mondays 12:00
     <<KNone, KAll, KAll, KAll, KAll, KAll>>,               \* no minute
     <<KAll, KAll, KAll, KAll, KAll, KNone>>}               \* no month

ScheduleIntervals ==
    {IntervalBuild(k[1], k[2], k[3], k[4], k[5], k[6]) : k \in ScheduleKinds}

\* 2019-03-01, 2020-02-28, 2020-02-29, 2020-03-01 and 2021-03-01
ScheduleNextBackups ==
    {DT(59, 0, 0, 0), DT(59, 0, 1, 0), DT(423, 10, 0, 30), DT(423, 10, 45, 10),
     DT(424, 0, 0, 0), DT(425, 5, 30, 0)}

ScheduleClocks ==
    {DT(59, 0, 0, 30), DT(59, 0, 1, 0), DT(423, 10, 59, 59), DT(423, 12, 10, 0),
     DT(424, 0, 0, 0), DT(425, 0, 5, 0), DT(425, 5, 30, 0), DT(790, 0, 5, 0)}

InitScheduled ==
    /\ iv = IntervalBuild(KAll, KAll, KAll, KAll, KAll, KAll)
    /\ dt = 0
    /\ res = Pending
    /\ profile \in [interval : ScheduleIntervals, next_backup : ScheduleNextBackups]
    /\ now \in ScheduleClocks
    /\ forced \in BOOLEAN
    /\ HandleRest
    /\ ArchiveIdle
    /\ OthersIdle

\* apply is_scheduled to the profile, the flag and the clock drawn
ApplyIsScheduled ==
    /\ pc = "idle"
    /\ decision' = is_scheduled(profile, forced, now)
    /\ pc' = "decided"
    /\ UNCHANGED <<ivars, profile, disk, trigger, now, forced, invoked_at,
                   prev_next_backup, advanced_at, backup_result, stored,
                   registered, target_dir, checked_dir, prompts, archives,
                   productions, avars, ovars>>

NextScheduled == ApplyIsScheduled

SpecScheduled == InitScheduled /\ [][NextScheduled]_vars

\* the invocation is_scheduled was applied to was not forced and was due
DueUnforced == pc = "decided" /\ ~forced /\ now >= profile.next_backup

\* C1 (as the code decides): a due, non-forced is_scheduled returns
\* advance_next = TRUE, and run_now = TRUE exactly when next_backup is matched
\* or (scheduled <= now and scheduled is matched), where scheduled is the
\* next match after next_backup, or next_backup + 365 days when there is none.
C1_DueDecision ==
    DueUnforced =>
        LET next == next_datetime(profile.interval, profile.next_backup)
            scheduled == IF IsSome(next) THEN Unwrap(next)
                         ELSE profile.next_backup + 365 * 86400
            run_now == \/ matches_datetime(profile.interval, profile.next_backup) = "Ok"
                       \/ /\ scheduled <= now
                          /\ matches_datetime(profile.interval, scheduled) = "Ok"
        IN  decision = <<TRUE, run_now>>

\* a due invocation whose next_backup is not matched runs the backup because
\* the match after next_backup has passed
C1_Witness ==
    /\ DueUnforced
    /\ matches_datetime(profile.interval, profile.next_backup) # "Ok"
    /\ decision = <<TRUE, TRUE>>

\* C1 as written: the same table with scheduled = interval.next_datetime(now),
\* which may be none (then nothing was skipped).
C1_AsWritten ==
    DueUnforced =>
        LET scheduled == next_datetime(profile.interval, now)
            run_now == \/ matches_datetime(profile.interval, profile.next_backup) = "Ok"
                       \/ /\ IsSome(scheduled)
                          /\ Unwrap(scheduled) <= now
                          /\ matches_datetime(profile.interval, Unwrap(scheduled)) = "Ok"
        IN  decision = <<TRUE, run_now>>

\* some minute the interval matches lies between the minute of `from` and
\* `to`, on a date no later than last_date
MatchedMinuteBetween(i, from, to, last_date) ==
    LET times == MatchedTimes(i)
    IN  \E d \in Date(from)..last_date :
            /\ matches_date(i, d)
            /\ \E t \in times : /\ from - (from % 60) <= and_time(d, t)
                                /\ and_time(d, t) <= to

\* C2 (as the code decides): a due, non-forced invocation runs the backup
\* exactly when a minute matched by the interval lies between next_backup's
\* minute and now and no more than 365 dates after next_backup's date.
C2_CatchUpWithinWindow ==
    DueUnforced =>
        LET last_date == IF Date(now) < Date(profile.next_backup) + 365
                         THEN Date(now) ELSE Date(profile.next_backup) + 365
        IN  decision[2] = MatchedMinuteBetween(profile.interval,
                              profile.next_backup, now, last_date)

\* a backup missed on an earlier date is caught up
C2_Witness ==
    /\ DueUnforced
    /\ Date(now) > Date(profile.next_backup)
    /\ matches_datetime(profile.interval, profile.next_backup) = "TimeNotMatched"
    /\ decision[2]

\* C2 as written: the backup runs exactly when a matched minute lies between
\* next_backup and now, however long ago next_backup was.
C2_AsWritten ==
    DueUnforced =>
        decision[2] = MatchedMinuteBetween(profile.interval,
                          profile.next_backup, now, Date(now))

\* ------------------------------------------------------ handle_profile
\* dialog.rs: what the retry dialog returns
RETRY == 4
CANCEL == 2

\* states of profile.target_dir on the filesystem
DirStates == {"missing", "file", "readonly", "writable"}

\* is_target_dir_available: fs::metadata fails for a missing path; otherwise
\* metadata.is_dir() && (!is_writeable && !metadata.permissions().readonly())
is_target_dir_available(dir, is_writeable) ==
    IF dir = "missing" THEN FALSE
    ELSE (dir # "file") /\ (~is_writeable /\ dir # "readonly")

\* handle_profile leaving on a failed perform_backup
abort_on_backup_error(result) == IF result = "ok" THEN "update" ELSE "done"

\* handle_profile after perform_backup: an Err is printed and dropped
after_perform_backup(result) == "update"

HandleKinds ==
    {<<KFirst, KAll, KAll, KAll, KAll, KAll>>,              \* every full hour
     <<KNth(30), KNth(5), KAll, KAll, KAll, KAll>>,         \* daily 05:30
     <<KFirst, KFirst, KAll, KNth(28), KAll, KNth(1)>>,     \* 29 February 00:00
     <<KNone, KAll, KAll, KAll, KAll, KAll>>}               \* no minute

HandleIntervals ==
    {IntervalBuild(k[1], k[2], k[3], k[4], k[5], k[6]) : k \in HandleKinds}

HandleNextBackups == {DT(59, 0, 1, 0), DT(423, 10, 45, 10)}

HandleClocks ==
    {DT(59, 0, 0, 30), DT(423, 10, 59, 59), DT(425, 0, 5, 0), DT(790, 0, 5, 0)}

Init ==
    /\ iv = IntervalBuild(KAll, KAll, KAll, KAll, KAll, KAll)
    /\ dt = 0
    /\ res = Pending
    /\ profile \in [interval : HandleIntervals, next_backup : HandleNextBackups]
    /\ disk = profile.next_backup
    /\ trigger = Some(disk)
    /\ now = DT(59, 0, 0, 30)
    /\ forced = FALSE
    /\ pc = "idle"
    /\ decision = <<FALSE, FALSE>> /\ invoked_at = 0 /\ prev_next_backup = 0
    /\ advanced_at = None /\ backup_result = "none" /\ stored = "none"
    /\ registered = "none" /\ target_dir \in DirStates /\ checked_dir = "missing"
    /\ prompts = 0 /\ archives = {} /\ productions = 0
    /\ ArchiveIdle
    /\ OthersIdle

\* main: the profile is loaded from its record and handed to handle_profile,
\* which calls is_scheduled
Invoke(is_forced) ==
    /\ pc = "idle"
    /\ Date(disk) <= MaxBackupDay
    /\ profile' = [profile EXCEPT !.next_backup = disk]
    /\ forced' = is_forced
    /\ invoked_at' = now
    /\ prev_next_backup' = disk
    /\ decision' = is_scheduled(profile', is_forced, now)
    /\ pc' = IF decision'[2] THEN "perform_backup" ELSE "update"
    /\ UNCHANGED <<ivars, disk, trigger, now, advanced_at, backup_result,
                   stored, registered, target_dir, checked_dir, prompts,
                   archives,
                   productions, avars, ovars>>

\* the calls of perform_backup ended in one clock minute are counted up to
\* MaxProductions
MaxProductions == 2

\* one more call of perform_backup has ended in the current clock minute;
\* `dir` is target_dir as its last check found it
ended_productions(n, dir) ==
    IF dir = "writable" /\ n < MaxProductions THEN n + 1 ELSE n

\* perform_backup: the head of the loop and, past the loop, the archive
CheckTargetDir ==
    /\ pc = "perform_backup"
    /\ IF is_target_dir_available(target_dir, TRUE)
       THEN LET name == now - (now % 60)
            IN  /\ pc' = after_perform_backup("any")
                /\ prompts' = 0 /\ checked_dir' = "missing"
                /\ productions' = ended_productions(productions, target_dir)
                /\ IF name \in archives
                   THEN backup_result' = "create_failed" /\ archives' = archives
                   ELSE \E finished \in BOOLEAN :
                            /\ backup_result' = IF finished THEN "ok" ELSE "finish_failed"
                            /\ archives' = IF finished THEN archives \cup {name}
                                           ELSE archives
       ELSE /\ pc' = "dialog"
            /\ checked_dir' = target_dir
            /\ UNCHANGED <<backup_result, archives, prompts, productions>>
    /\ UNCHANGED <<ivars, profile, disk, trigger, now, forced, decision,
                   invoked_at, prev_next_backup, advanced_at, stored, registered,
                   target_dir, avars, ovars>>

\* perform_backup: retry_dialog returns
RetryDialog(choice) ==
    /\ pc = "dialog"
    /\ prompts < MaxPrompts \/ choice = CANCEL
    /\ IF choice = RETRY
       THEN /\ pc' = "perform_backup"
            /\ prompts' = prompts + 1
            /\ UNCHANGED <<backup_result, checked_dir, productions>>
       ELSE /\ pc' = after_perform_backup("cancelled")
            /\ backup_result' = "cancelled"
            /\ prompts' = 0 /\ checked_dir' = "missing"
            /\ productions' = ended_productions(productions, checked_dir)
    /\ UNCHANGED <<ivars, profile, disk, trigger, now, forced, decision,
                   invoked_at, prev_next_backup, advanced_at, stored, registered,
                   target_dir, archives, avars, ovars>>

\* an update of next_backup that searches from next_backup, not the clock
UpdateFromNextBackup ==
    /\ pc = "update"
    /\ IF decision[1]
       THEN /\ profile' = [profile EXCEPT
                              !.next_backup = get_next_scheduled(profile, None)]
            /\ advanced_at' = Some(now)
       ELSE UNCHANGED <<profile, advanced_at>>
    /\ pc' = "store"
    /\ UNCHANGED <<ivars, disk, trigger, now, forced, decision, invoked_at,
                   prev_next_backup, backup_result, stored, registered,
                   target_dir, checked_dir, prompts, archives,
                   productions, avars, ovars>>

\* handle_profile: update next_backup if needed
UpdateNextBackup ==
    /\ pc = "update"
    /\ IF decision[1]
       THEN /\ profile' = [profile EXCEPT
                              !.next_backup = get_next_scheduled(profile, Some(now))]
            /\ advanced_at' = Some(now)
       ELSE UNCHANGED <<profile, advanced_at>>
    /\ pc' = "store"
    /\ UNCHANGED <<ivars, disk, trigger, now, forced, decision, invoked_at,
                   prev_next_backup, backup_result, stored, registered,
                   target_dir, checked_dir, prompts, archives,
                   productions, avars, ovars>>

\* handle_profile: profile_config.store, whose Err is printed and dropped
Store ==
    /\ pc = "store"
    /\ \E ok \in BOOLEAN :
          /\ stored' = IF ok THEN "ok" ELSE "err"
          /\ disk' = IF ok THEN profile.next_backup ELSE disk
    /\ pc' = "schedule"
    /\ UNCHANGED <<ivars, profile, trigger, now, forced, decision, invoked_at,
                   prev_next_backup, advanced_at, backup_result, registered,
                   target_dir, checked_dir, prompts, archives,
                   productions, avars, ovars>>

\* handle_profile: schedule_backup, whose Err is printed and dropped
ScheduleBackup ==
    /\ pc = "schedule"
    /\ \E ok \in BOOLEAN :
          /\ registered' = IF ok THEN "ok" ELSE "err"
          /\ trigger' = IF ok THEN Some(profile.next_backup) ELSE trigger
    /\ pc' = "done"
    /\ UNCHANGED <<ivars, profile, disk, now, forced, decision, invoked_at,
                   prev_next_backup, advanced_at, backup_result, stored,
                   target_dir, checked_dir, prompts, archives,
                   productions, avars, ovars>>

\* the memory of the process that ran handle_profile is gone
ProcessEnds ==
    /\ pc' = "idle"
    /\ profile' = [profile EXCEPT !.next_backup = disk]
    /\ forced' = FALSE
    /\ decision' = <<FALSE, FALSE>> /\ invoked_at' = 0 /\ prev_next_backup' = 0
    /\ advanced_at' = None /\ backup_result' = "none" /\ stored' = "none"
    /\ registered' = "none" /\ checked_dir' = "missing" /\ prompts' = 0
    /\ UNCHANGED <<ivars, disk, trigger, now, target_dir, archives,
                   productions, avars, ovars>>

\* handle_profile returns and the process ends
Return ==
    /\ pc = "done"
    /\ ProcessEnds

\* the process is killed inside handle_profile
Crash ==
    /\ pc \notin {"idle", "done"}
    /\ ProcessEnds

\* the wall clock moves on; it is read by is_scheduled, by perform_backup
\* past the dialogs and by the update of next_backup, so time passing
\* elsewhere is time passing before the next of these
Tick ==
    /\ pc \in {"idle", "dialog", "update"}
    /\ now' \in {t \in HandleClocks : t > now}
    /\ productions' = IF now' - (now' % 60) = now - (now % 60)
                      THEN productions ELSE 0
    /\ UNCHANGED <<ivars, profile, disk, trigger, forced, pc, decision,
                   invoked_at, prev_next_backup, advanced_at, backup_result,
                   stored, registered, target_dir, checked_dir, prompts,
                   archives, avars, ovars>>

\* the target directory is plugged in, removed or remounted; it is looked
\* at by perform_backup only, before the first dialog and after each one
SetTargetDir ==
    /\ pc \in {"idle", "dialog"}
    /\ target_dir' \in DirStates \ {target_dir}
    /\ UNCHANGED <<ivars, profile, disk, trigger, now, forced, pc, decision,
                   invoked_at, prev_next_backup, advanced_at, backup_result,
                   stored, registered, checked_dir, prompts, archives,
                   productions, avars, ovars>>

Next ==
    \/ \E is_forced \in BOOLEAN : Invoke(is_forced)
    \/ CheckTargetDir
    \/ \E choice \in {RETRY, CANCEL} : RetryDialog(choice)
    \/ UpdateNextBackup
    \/ Store
    \/ ScheduleBackup
    \/ Return
    \/ Crash
    \/ Tick
    \/ SetTargetDir

Spec == Init /\ [][Next]_vars

\* handle_profile has returned
Returned == pc = "done"

\* the update of next_backup found no match and took the fallback
FallbackTaken ==
    /\ decision[1]
    /\ IsSome(advanced_at)
    /\ ~IsSome(next_datetime(profile.interval, Unwrap(advanced_at)))

\* C3: after handle_profile returns, next_backup is strictly later than the
\* clock at which it was invoked, except when the no-match fallback was taken:
\* then next_backup is at least the previous next_backup plus 365 days.
C3_NextBackupAfterHandle ==
    Returned =>
        IF FallbackTaken
        THEN profile.next_backup >= prev_next_backup + 365 * 86400
        ELSE profile.next_backup > invoked_at

\* handle_profile returned from the fallback with a next_backup that is not
\* later than the invocation
C3_Witness ==
    /\ Returned
    /\ FallbackTaken
    /\ profile.next_backup <= invoked_at

\* C4 as written: when handle_profile has registered a trigger firing at T,
\* the profile record on disk carries next_backup = T.
C4_AsWritten ==
    (Returned /\ registered = "ok") => (IsSome(trigger) /\ disk = Unwrap(trigger))

\* C5: when the backup was to be run, handle_profile advances next_backup,
\* stores the profile and calls schedule_backup whatever perform_backup
\* returned, its failures included.
C5_FailureStillAdvances ==
    (Returned /\ decision[2]) =>
        /\ IsSome(advanced_at)
        /\ profile.next_backup =
              get_next_scheduled([profile EXCEPT !.next_backup = prev_next_backup],
                                 advanced_at)
        /\ stored # "none"
        /\ registered # "none"

\* handle_profile returned after a cancelled perform_backup, with the profile
\* stored and the trigger registered
C5_Witness ==
    /\ Returned
    /\ decision[2]
    /\ backup_result = "cancelled"
    /\ stored = "ok"
    /\ registered = "ok"
    /\ disk = profile.next_backup
    /\ trigger = Some(profile.next_backup)

\* availability as the directory's state has it: the path exists, is a
\* directory, and is not read-only where writability is required
AvailableAsWritten(dir, require_writable) ==
    /\ dir \in {"readonly", "writable"}
    /\ (~require_writable \/ dir # "readonly")

\* C6 as written: is_target_dir_available is true exactly for an existing
\* directory that is not read-only when writability is required, so
\* perform_backup opens no retry dialog for an existing writable target_dir.
C6_AsWritten ==
    pc = "dialog" =>
        is_target_dir_available(checked_dir, TRUE) = AvailableAsWritten(checked_dir, TRUE)

\* C7 as written: once a re-check after a Retry answer finds the directory
\* available, the loop ends and no further dialog is opened.
C7_AsWritten ==
    (pc = "dialog" /\ prompts > 0) => ~AvailableAsWritten(checked_dir, TRUE)

\* C17: with forced = true is_scheduled returns (true, true) whatever
\* next_backup and the interval are, so handle_profile calls perform_backup
\* and recomputes next_backup.
C17_ForcedRuns ==
    /\ (forced /\ pc # "idle") => decision = <<TRUE, TRUE>>
    /\ (forced /\ Returned) =>
          /\ backup_result # "none"
          /\ IsSome(advanced_at)
          /\ profile.next_backup =
                get_next_scheduled([profile EXCEPT !.next_backup = prev_next_backup],
                                   advanced_at)

\* a forced invocation before next_backup was due has gone through
\* perform_backup and has moved next_backup
C17_Witness ==
    /\ forced
    /\ Returned
    /\ invoked_at < prev_next_backup
    /\ backup_result = "cancelled"
    /\ profile.next_backup # prev_next_backup

\* handle_profile is running, or has returned, for an invocation that was
\* not forced and came before next_backup
NotDueUnforced == pc # "idle" /\ ~forced /\ invoked_at < prev_next_backup

PastUpdate == pc \in {"store", "schedule", "done"}

C20_AsWritten ==
    productions >= 2 => (now - (now % 60)) \in archives

\* ------------------------------------------- perform_backup: the archive
\* the filesystem perform_backup walks; a path is the sequence of its
\* components
Dirs == {<<"d">>, <<"d", "c">>, <<"e">>}
Files == {<<"d", "a">>, <<"d", "c", "k">>, <<"d", "c", "o">>, <<"e", "f">>}

\* Path::starts_with, by whole components
starts_with(path, base) ==
    Len(base) <= Len(path) /\ SubSeq(path, 1, Len(base)) = base

\* ProfileConfig::is_in_dir
is_in_dir(path, dir) == starts_with(path, dir)

\* ProfileConfig::is_excluded
is_excluded(c, path) ==
    \/ \E excluded_file \in c.files_to_exclude : excluded_file = path
    \/ \E excluded_dir \in c.dirs_to_exclude : is_in_dir(path, excluded_dir)

\* ProfileConfig::in_included_dirs
in_included_dirs(c, path) ==
    \E included_dir \in c.dirs_to_include : is_in_dir(path, included_dir)

\* fs::read_dir: the entries of a directory
read_dir(dir) ==
    {path \in Dirs \cup Files : Len(path) = Len(dir) + 1 /\ starts_with(path, dir)}

RECURSIVE add_directory_unfiltered(_, _)
\* add_directory without `if profile_config.is_excluded(&path) { continue; }`
add_directory_unfiltered(c, dir) ==
    IF dir \notin Dirs THEN {}
    ELSE UNION {(IF path \in Dirs THEN add_directory_unfiltered(c, path) ELSE {})
                    \cup (IF path \in Files THEN {path} ELSE {}) :
                path \in read_dir(dir)}

RECURSIVE add_directory(_, _)
\* add_directory: the paths it writes to the archive
add_directory(c, dir) ==
    IF dir \notin Dirs THEN {}
    ELSE UNION {IF is_excluded(c, path) THEN {}
                ELSE (IF path \in Dirs THEN add_directory(c, path) ELSE {})
                        \cup (IF path \in Files THEN {path} ELSE {}) :
                path \in read_dir(dir)}

\* add_file: the paths it writes to the archive
add_file(c, file) ==
    IF file \notin Files THEN {}
    ELSE IF in_included_dirs(c, file) /\ ~is_excluded(c, file) THEN {}
    ELSE {file}

\* the lists of the profiles archived
Configs ==
    [files_to_include : SUBSET {<<"d", "a">>, <<"d", "c", "k">>, <<"e", "f">>, <<"x">>},
     dirs_to_include : SUBSET {<<"d">>, <<"d", "c">>},
     files_to_exclude : SUBSET {<<"d", "a">>, <<"d", "c", "k">>, <<"d", "c">>},
     dirs_to_exclude : SUBSET {<<"d", "c">>, <<"e">>}]

\* perform_backup has left the availability loop and created the archive file
InitArchive ==
    /\ iv = IntervalBuild(KAll, KAll, KAll, KAll, KAll, KAll)
    /\ dt = 0
    /\ res = Pending
    /\ HandleIdle
    /\ OthersIdle
    /\ cfg \in Configs
    /\ apc = "created"
    /\ zip = {}

\* perform_backup: add all directories
AddDirectories ==
    /\ apc = "created"
    /\ zip' = zip \cup UNION {add_directory(cfg, dir) : dir \in cfg.dirs_to_include}
    /\ apc' = "dirs_added"
    /\ UNCHANGED <<ivars, hvars, ovars, cfg>>

\* perform_backup: add all files
AddFiles ==
    /\ apc = "dirs_added"
    /\ zip' = zip \cup UNION {add_file(cfg, file) : file \in cfg.files_to_include}
    /\ apc' = "files_added"
    /\ UNCHANGED <<ivars, hvars, ovars, cfg>>

\* perform_backup: zip.finish()
Finish ==
    /\ apc = "files_added"
    /\ apc' = "finished"
    /\ UNCHANGED <<ivars, hvars, ovars, cfg, zip>>

NextArchive == AddDirectories \/ AddFiles \/ Finish

SpecArchive == InitArchive /\ [][NextArchive]_vars

\* C8 (as the code writes): every path written into an archive is an entry of
\* files_to_include, or is not excluded and lies under an entry of
\* dirs_to_include.
C8_WrittenPaths ==
    \A path \in zip :
        \/ path \in cfg.files_to_include
        \/ ~is_excluded(cfg, path) /\ in_included_dirs(cfg, path)

\* an excluded file under an included directory is in the archive because
\* files_to_include lists it
C8_Witness ==
    /\ apc = "finished"
    /\ \E path \in zip : /\ is_excluded(cfg, path)
                         /\ in_included_dirs(cfg, path)
                         /\ path \in cfg.files_to_include
    /\ \E path \in zip : path \notin cfg.files_to_include

\* C8 as written: every path written into an archive is not excluded, and
\* lies under an entry of dirs_to_include or is an entry of files_to_include.
C8_AsWritten ==
    \A path \in zip :
        /\ ~is_excluded(cfg, path)
        /\ in_included_dirs(cfg, path) \/ path \in cfg.files_to_include

\* C9 as written: in the finished archive, every existing regular file of
\* files_to_include is written, excluded or not; a file under an excluded
\* directory that files_to_include does not list is not written; and every
\* file under an included directory that is not excluded is written.
C9_AsWritten ==
    apc = "finished" =>
        /\ \A file \in cfg.files_to_include \cap Files : file \in zip
        /\ \A file \in Files \ cfg.files_to_include :
              (\E dir \in cfg.dirs_to_exclude : starts_with(file, dir)) => file \notin zip
        /\ \A file \in Files :
              (in_included_dirs(cfg, file) /\ ~is_excluded(cfg, file)) => file \in zip

\* ---------------------------------------------------------------- restore
\* A file name is the sequence of its pieces; a piece is the hyphenated uuid
\* of a profile ("id": v is the profile), the text "_", a suffix (".zip",
\* ".bak"), a text NaiveDateTime::parse_from_str reads with the format
\* "%Y-%m-%d_%H-%M" ("stamp", or "short" when written without the leading
\* zeros: v is the datetime read), or any other text.
Piece(t, v) == [t |-> t, v |-> v]
Uuid(n) == Piece("id", n)
Sep == Piece("_", 0)
Zip == Piece(".zip", 0)
Bak == Piece(".bak", 0)
Stamp(d, h, m) == Piece("stamp", DT(d, h, m, 0))
Short(d, h, m) == Piece("short", DT(d, h, m, 0))
Text(n) == Piece("text", n)

\* str::strip_suffix
strip_suffix(name, suffix) ==
    IF /\ Len(name) >= Len(suffix)
       /\ SubSeq(name, Len(name) - Len(suffix) + 1, Len(name)) = suffix
    THEN Some(SubSeq(name, 1, Len(name) - Len(suffix)))
    ELSE None

\* str::strip_prefix
strip_prefix(name, prefix) ==
    IF Len(name) >= Len(prefix) /\ SubSeq(name, 1, Len(prefix)) = prefix
    THEN Some(SubSeq(name, Len(prefix) + 1, Len(name)))
    ELSE None

\* Option::unwrap_or("")
unwrap_or_empty(o) == IF IsSome(o) THEN Unwrap(o) ELSE <<>>

\* NaiveDateTime::parse_from_str(text, "%Y-%m-%d_%H-%M"): Ok as Some
parse_from_str(text) ==
    IF Len(text) = 1 /\ text[1].t \in {"stamp", "short"}
    THEN Some(text[1].v) ELSE None

\* find_backup_archive: the creation date read from a file name
creation_date(name, uuid) ==
    parse_from_str(
        unwrap_or_empty(strip_prefix(unwrap_or_empty(strip_suffix(name, <<Zip>>)),
                                     <<Uuid(uuid), Sep>>)))

\* find_backup_archive: one entry of the loop; best_backup is an Option of
\* <<creation_date, entry>>
update_best(entry, uuid, timestamp, best_backup) ==
    IF entry.kind = "dir" THEN best_backup
    ELSE IF ~IsSome(creation_date(entry.name, uuid)) THEN best_backup
    ELSE IF /\ Unwrap(creation_date(entry.name, uuid)) <= timestamp
            /\ (~IsSome(best_backup)
                \/ Unwrap(best_backup)[1] < Unwrap(creation_date(entry.name, uuid)))
         THEN Some(<<Unwrap(creation_date(entry.name, uuid)), entry>>)
         ELSE best_backup

RECURSIVE scan_entries(_, _, _, _, _)
\* find_backup_archive: the loop over the entries, from the k-th on
scan_entries(entries, k, uuid, timestamp, best_backup) ==
    IF k > Len(entries) THEN best_backup
    ELSE scan_entries(entries, k + 1, uuid, timestamp,
                      update_best(entries[k], uuid, timestamp, best_backup))

\* find_backup_archive past fs::read_dir: the path of the best backup
find_backup_archive(entries, uuid, timestamp) ==
    IF IsSome(scan_entries(entries, 1, uuid, timestamp, None))
    THEN Some(Unwrap(scan_entries(entries, 1, uuid, timestamp, None))[2])
    ELSE None

\* the profile restored is profile 1
OwnUuid == 1

File(name) == [kind |-> "file", name |-> name]
Dir(name) == [kind |-> "dir", name |-> name]

\* what target_dir may hold: archives of the profile, an archive of another
\* profile, and names that are no archive names of the profile
Entries ==
    {File(<<Uuid(1), Sep, Stamp(10, 8, 0), Zip>>),
     File(<<Uuid(1), Sep, Stamp(20, 8, 0), Zip>>),
     File(<<Uuid(1), Sep, Short(20, 8, 0), Zip>>),
     File(<<Uuid(1), Sep, Stamp(30, 8, 0), Zip>>),
     File(<<Uuid(2), Sep, Stamp(25, 8, 0), Zip>>),
     File(<<Uuid(1), Sep, Stamp(26, 8, 0), Bak>>),
     File(<<Uuid(1), Sep, Stamp(27, 8, 0)>>),
     File(<<Uuid(1), Sep, Text(1), Zip>>),
     File(<<Uuid(1), Sep, Stamp(28, 8, 0), Text(2), Zip>>),
     File(<<Stamp(29, 8, 0), Zip>>),
     File(<<Uuid(1), Sep, Zip>>),
     Dir(<<Uuid(1), Sep, Stamp(24, 8, 0), Zip>>)}

\* the entries of one target_dir are at most MaxEntries
MaxEntries == 3

Listings == {l \in SUBSET Entries : Cardinality(l) <= MaxEntries}

Timestamps == {DT(5, 0, 0, 0), DT(20, 8, 0, 0), DT(29, 12, 0, 30), DT(40, 0, 0, 0)}

\* the orders in which fs::read_dir may yield the entries of `l`
ReadDirOrders(l) ==
    {o \in [1..Cardinality(l) -> l] : \A i, j \in 1..Cardinality(l) : o[i] = o[j] => i = j}

InitRestore ==
    /\ iv = IntervalBuild(KAll, KAll, KAll, KAll, KAll, KAll)
    /\ dt = 0
    /\ res = Pending
    /\ profile = [interval |-> IntervalBuild(KAll, KAll, KAll, KAll, KAll, KAll),
                  next_backup |-> 0]
    /\ disk = 0 /\ trigger = None /\ now = 0 /\ forced = FALSE /\ pc = "idle"
    /\ decision = <<FALSE, FALSE>> /\ invoked_at = 0 /\ prev_next_backup = 0
    /\ advanced_at = None /\ backup_result = "none" /\ stored = "none"
    /\ registered = "none" /\ target_dir \in DirStates /\ checked_dir = "missing"
    /\ prompts = 0 /\ archives = {} /\ productions = 0
    /\ ArchiveIdle
    /\ listing \in Listings
    /\ at \in Timestamps
    /\ rpc = "check" /\ scan = "none" /\ best = None /\ restored = None
    /\ DeleteIdle
    /\ ServerIdle

\* available_target_dir_dialog: the head of the loop
RestoreCheckDir ==
    /\ rpc = "check"
    /\ checked_dir' = target_dir
    /\ rpc' = IF is_target_dir_available(target_dir, FALSE) THEN "find" ELSE "dialog"
    /\ UNCHANGED <<ivars, profile, disk, trigger, now, pc, forced, decision,
                   invoked_at, prev_next_backup, advanced_at, backup_result,
                   stored, registered, target_dir, prompts, archives,
                   productions, avars, listing, at, scan, best, restored,
                   nrvars>>

\* available_target_dir_dialog: retry_dialog returns
RestoreDialog(choice) ==
    /\ rpc = "dialog"
    /\ prompts < MaxPrompts \/ choice = CANCEL
    /\ IF choice = RETRY
       THEN rpc' = "check" /\ prompts' = prompts + 1
       ELSE rpc' = "done" /\ prompts' = prompts
    /\ UNCHANGED <<ivars, profile, disk, trigger, now, pc, forced, decision,
                   invoked_at, prev_next_backup, advanced_at, backup_result,
                   stored, registered, target_dir, checked_dir, archives,
                   productions, avars, listing, at, scan, best, restored,
                   nrvars>>

\* the drive is plugged in, removed or remounted while the dialog is open
RestoreSetTargetDir ==
    /\ rpc = "dialog"
    /\ SetTargetDir

\* find_backup_archive, and restore returning when it finds nothing
FindBackupArchive ==
    /\ rpc = "find"
    /\ \/ /\ scan' = "err"
          /\ best' = None
       \/ /\ target_dir \in {"readonly", "writable"}
          /\ scan' = "ok"
          /\ \E order \in ReadDirOrders(listing) :
                best' = find_backup_archive(order, OwnUuid, at)
    /\ rpc' = IF IsSome(best') THEN "extract" ELSE "done"
    /\ UNCHANGED <<ivars, hvars, avars, listing, at, restored, nrvars>>

\* restore_from_backup
RestoreFromBackup ==
    /\ rpc = "extract"
    /\ restored' = best
    /\ rpc' = "done"
    /\ UNCHANGED <<ivars, hvars, avars, listing, at, scan, best, nrvars>>

NextRestore ==
    \/ RestoreCheckDir
    \/ \E choice \in {RETRY, CANCEL} : RestoreDialog(choice)
    \/ RestoreSetTargetDir
    \/ FindBackupArchive
    \/ RestoreFromBackup

SpecRestore == InitRestore /\ [][NextRestore]_vars

\* the files of `l` named <uuid>_<YYYY-MM-DD_HH-MM>.zip whose timestamp is
\* not later than ts
Candidates(l, uuid, ts) ==
    {e \in l : /\ e.kind = "file"
               /\ Len(e.name) = 4
               /\ e.name[1] = Uuid(uuid) /\ e.name[2] = Sep /\ e.name[4] = Zip
               /\ e.name[3].t \in {"stamp", "short"}
               /\ e.name[3].v <= ts}

\* the candidates with the greatest timestamp
Latest(l, uuid, ts) ==
    {e \in Candidates(l, uuid, ts) :
        \A f \in Candidates(l, uuid, ts) : f.name[3].v <= e.name[3].v}

\* restore extracted what C21 has it select, or nothing when there is none
RestoredLatest ==
    IF Latest(listing, OwnUuid, at) = {} THEN restored = None
    ELSE IsSome(restored) /\ Unwrap(restored) \in Latest(listing, OwnUuid, at)

\* C21 as written: restore, run on a target_dir that is there and can be
\* read, extracts the file named <profile.id>_<YYYY-MM-DD_HH-MM>.zip with the
\* greatest timestamp not later than `at`, never a file of another name, and
\* nothing when no file qualifies.
C21_AsWritten ==
    (rpc = "done" /\ checked_dir \in {"readonly", "writable"} /\ scan # "err")
        => RestoredLatest

\* ---------------------------------------------------------------------
\* delete (backupper/src/delete.rs)

\* unschedule_backup: the task is gone when it returns Ok
unschedule_backup(registered_task, ok) == IF ok THEN None ELSE registered_task

\* the entries delete_backup_files removes: the files whose name starts with
\* the hyphenated uuid and ends with ".zip"
backup_files(entries, uuid) ==
    {e \in entries : /\ e.kind = "file"
                     /\ Len(e.name) >= 1
                     /\ e.name[1] = Uuid(uuid)
                     /\ e.name[Len(e.name)] = Zip}

InitDelete ==
    /\ iv = IntervalBuild(KAll, KAll, KAll, KAll, KAll, KAll)
    /\ dt = 0
    /\ res = Pending
    /\ profile \in [interval : {IntervalBuild(KAll, KAll, KAll, KAll, KAll, KAll)},
                    next_backup : HandleNextBackups]
    /\ disk = profile.next_backup
    /\ trigger = Some(disk)
    /\ now = 0 /\ forced = FALSE /\ pc = "idle"
    /\ decision = <<FALSE, FALSE>> /\ invoked_at = 0 /\ prev_next_backup = 0
    /\ advanced_at = None /\ backup_result = "none" /\ stored = "none"
    /\ registered = "none" /\ target_dir = "writable" /\ checked_dir = "missing"
    /\ prompts = 0 /\ archives = {} /\ productions = 0
    /\ ArchiveIdle
    /\ listing \in Listings
    /\ at = 0 /\ rpc = "idle" /\ scan = "none" /\ best = None /\ restored = None
    /\ dpc = "unschedule" /\ delete_backups \in BOOLEAN
    /\ record = TRUE /\ failed = {}
    /\ ServerIdle

\* schedule_backup(uuid, profile_config.next_backup) after the step `step`
\* has failed; its own Err is logged and dropped
Reschedule(step) ==
    \E ok \in BOOLEAN :
        /\ trigger' = IF ok THEN Some(profile.next_backup) ELSE trigger
        /\ failed' = failed \cup {step} \cup (IF ok THEN {} ELSE {"schedule"})

\* delete: unschedule_backup, and the return when it fails
DeleteUnschedule ==
    /\ dpc = "unschedule"
    /\ \E ok \in BOOLEAN :
          /\ trigger' = unschedule_backup(trigger, ok)
          /\ failed' = IF ok THEN failed ELSE failed \cup {"unschedule"}
          /\ dpc' = IF ~ok THEN "done"
                    ELSE IF delete_backups THEN "files" ELSE "record"
    /\ UNCHANGED <<ivars, profile, disk, now, pc, forced, decision,
                   invoked_at, prev_next_backup, advanced_at, backup_result,
                   stored, registered, target_dir, checked_dir, prompts,
                   archives, productions, avars, rvars, delete_backups, record,
                   xvars>>

\* delete: delete_backup_files. fs::read_dir may fail, and the trigger is
\* registered again; a file that fs::remove_file cannot remove (`stuck`) is
\* logged and the function goes on and returns Ok
DeleteBackupFiles ==
    /\ dpc = "files"
    /\ \/ /\ Reschedule("read_dir")
          /\ dpc' = "done"
          /\ UNCHANGED listing
       \/ \E stuck \in SUBSET backup_files(listing, OwnUuid) :
             /\ listing' = listing \ (backup_files(listing, OwnUuid) \ stuck)
             /\ failed' = IF stuck = {} THEN failed
                          ELSE failed \cup {"remove_file"}
             /\ dpc' = "record"
             /\ UNCHANGED trigger
    /\ UNCHANGED <<ivars, profile, disk, now, pc, forced, decision,
                   invoked_at, prev_next_backup, advanced_at, backup_result,
                   stored, registered, target_dir, checked_dir, prompts,
                   archives, productions, avars, at, rpc, scan, best,
                   restored, delete_backups, record, xvars>>

\* a delete that leaves the trigger unregistered when the record stays
DeleteRecordUncompensated ==
    /\ dpc = "record"
    /\ \E ok \in BOOLEAN :
          /\ record' = ~ok
          /\ failed' = IF ok THEN failed ELSE failed \cup {"record"}
          /\ UNCHANGED trigger
    /\ dpc' = "done"
    /\ UNCHANGED <<ivars, profile, disk, now, pc, forced, decision,
                   invoked_at, prev_next_backup, advanced_at, backup_result,
                   stored, registered, target_dir, checked_dir, prompts,
                   archives, productions, avars, rvars, delete_backups, xvars>>

\* delete: fs::remove_file of <uuid>.json, and the trigger registered again
\* when it fails
DeleteRecord ==
    /\ dpc = "record"
    /\ \/ /\ record' = FALSE
          /\ UNCHANGED <<trigger, failed>>
       \/ /\ Reschedule("record")
          /\ UNCHANGED record
    /\ dpc' = "done"
    /\ UNCHANGED <<ivars, profile, disk, now, pc, forced, decision,
                   invoked_at, prev_next_backup, advanced_at, backup_result,
                   stored, registered, target_dir, checked_dir, prompts,
                   archives, productions, avars, rvars, delete_backups, xvars>>

NextDelete ==
    \/ DeleteUnschedule
    \/ DeleteBackupFiles
    \/ DeleteRecord

SpecDelete == InitDelete /\ [][NextDelete]_vars

\* C22 as written: when delete --remove-backups could not delete the
\* profile's archives (the directory could not be read, or a matching
\* archive could not be removed), the record is still there when delete
\* returns, and the trigger is registered at profile.next_backup unless the
\* registration itself failed.
C22_AsWritten ==
    (dpc = "done" /\ delete_backups
        /\ failed \cap {"read_dir", "remove_file"} # {})
    => /\ record
       /\ "schedule" \notin failed => trigger = Some(profile.next_backup)

\* trigger and record are both there or both gone
Coherent == IsSome(trigger) <=> record

\* C23: when delete returns with at most one step having failed, the trigger
\* is registered and the record exists, or both are gone; and a delete whose
\* unschedule_backup failed has left the archives and the record as they were.
C23_Coherent ==
    [][(dpc' = "done" /\ Cardinality(failed') <= 1)
        => /\ Coherent'
           /\ "unschedule" \in failed' => UNCHANGED <<listing, record, trigger>>]_vars

\* C23 is witnessed by a delete that ended on its one failed step, the
\* removal of the record, with the trigger registered again
C23_Witness ==
    /\ dpc = "done" /\ failed = {"record"}
    /\ record /\ trigger = Some(profile.next_backup)

\* ---------------------------------------------------------------------
\* loading the profiles a command line selects (backupper/src/config.rs)

\* Interval::validate: every axis has its canonical range
validate(i) ==
    IF <<i.minutes.min, i.minutes.max>> # MINUTES_RANGE THEN "Err"
    ELSE IF <<i.hours.min, i.hours.max>> # HOURS_RANGE THEN "Err"
    ELSE IF <<i.weekdays.min, i.weekdays.max>> # WEEKDAYS_RANGE THEN "Err"
    ELSE IF <<i.monthdays.min, i.monthdays.max>> # MONTHDAYS_RANGE THEN "Err"
    ELSE IF <<i.weeks.min, i.weeks.max>> # WEEKS_RANGE THEN "Err"
    ELSE IF <<i.months.min, i.months.max>> # MONTHS_RANGE THEN "Err"
    ELSE "Ok"

\* Uuid::parse_str: a text is a uuid in hyphenated form (Uuid(n)) or is not
\* a uuid at all
parse_str(text) == IF text.t = "id" THEN Some(text.v) ELSE None

\* ProfileConfig::load: the record the file holds, None when its text is not
\* a whole record. The derived Deserialize takes each Specifier as stored.
load(file) ==
    IF file.well_formed THEN Some(file.record) ELSE None

\* matches_specifier
matches_specifier(profile_conf, specifier) ==
    IF ~IsSome(profile_conf) THEN None
    ELSE LET name_match == IF IsSome(specifier.name)
                           THEN Unwrap(profile_conf).name = Unwrap(specifier.name)
                           ELSE TRUE
             uuid_match == IF IsSome(specifier.uuid)
                           THEN IF IsSome(parse_str(Unwrap(specifier.uuid)))
                                THEN Unwrap(profile_conf).uuid
                                        = Unwrap(parse_str(Unwrap(specifier.uuid)))
                                ELSE TRUE
                           ELSE TRUE
         IN  IF name_match /\ uuid_match THEN profile_conf ELSE None

\* soft_load_profile_configs over a readable directory: the profiles of the
\* .json files that load and match
soft_load_profile_configs(dir, specifier) ==
    {Unwrap(matches_specifier(load(f), specifier)) :
        f \in {g \in dir : /\ g.extension = "json"
                           /\ IsSome(matches_specifier(load(g), specifier))}}

\* the intervals found in stored records: built by the IntervalBuilder, or
\* edited by hand to minutes 0..100 or to monthdays 1..31
StoredIntervals ==
    LET all == IntervalBuild(KAll, KAll, KAll, KAll, KAll, KAll)
    IN  {all,
         [all EXCEPT !.minutes = SpecifierNew(0, 100, KAll)],
         [all EXCEPT !.monthdays = SpecifierNew(1, 31, KAll)]}

\* what the file <uuid>.json of the profiles directory may be
StoredFiles(uuid) ==
    {{}}
    \cup {{[extension |-> "json", well_formed |-> w,
            record |-> [name |-> n, uuid |-> uuid, interval |-> i]]} :
             w \in BOOLEAN, n \in {"a", "b"}, i \in StoredIntervals}

\* the profiles directory: <uuid>.json of two profiles, and possibly a file
\* of another extension that holds a record
ProfileDirs ==
    {f1 \cup f2 \cup f3 :
        f1 \in StoredFiles(1), f2 \in StoredFiles(2),
        f3 \in {{}, {[extension |-> "txt", well_formed |-> TRUE,
                      record |-> [name |-> "a", uuid |-> 3,
                                  interval |-> IntervalBuild(KAll, KAll, KAll,
                                                             KAll, KAll, KAll)]]}}}

\* Args: exactly one of --name and --uuid, the uuid as the text given
ProfileSpecifiers ==
    {[name |-> Some(n), uuid |-> None] : n \in {"a", "b", "c"}}
    \cup {[name |-> None, uuid |-> Some(u)] :
             u \in {Uuid(1), Uuid(2), Uuid(9), Text(1)}}

InitLoad ==
    /\ iv \in [dir : ProfileDirs, specifier : ProfileSpecifiers]
    /\ dt = 0
    /\ res = Pending
    /\ HandleIdle
    /\ ArchiveIdle
    /\ OthersIdle

\* main: soft_load_profile_configs, whose result the subcommand is run on
ApplyLoad ==
    /\ ~res.done
    /\ res' = [done |-> TRUE,
               value |-> soft_load_profile_configs(iv.dir, iv.specifier)]
    /\ UNCHANGED <<iv, dt, hvars, avars, ovars>>

SpecLoad == InitLoad /\ [][ApplyLoad]_vars

\* C24 as written: every profile the loader hands to handle_profile and to
\* reschedule has an interval whose six ranges are the canonical ones; a
\* stored record with another range is rejected.
C24_AsWritten ==
    res.done => \A p \in res.value : validate(p.interval) = "Ok"

\* C26 as written: for every selector, every profile the loader returns has
\* the name given or the id given, also when the id given is not a uuid.
C26_AsWritten ==
    res.done =>
        \A p \in res.value :
            \/ IsSome(iv.specifier.name) /\ p.name = Unwrap(iv.specifier.name)
            \/ IsSome(iv.specifier.uuid) /\ Uuid(p.uuid) = Unwrap(iv.specifier.uuid)

\* ---------------------------------------------------------------------
\* a profile file rewritten while another process loads it
\* (config/src/profile_config.rs)

\* serde_json::to_writer_pretty: the text of a record, as the tokens the
\* BufWriter hands to the file in order
to_writer_pretty(r) == <<"{", r.name, r.target_dir, "}">>

\* serde_json::from_reader: the record a text holds, None (an Err) when the
\* text is not the whole text of a record
from_reader(text) ==
    IF Len(text) = 4 /\ text[1] = "{" /\ text[4] = "}"
    THEN Some([name |-> text[2], target_dir |-> text[3]])
    ELSE None

\* the fields of a record that tell the previous record from the new one
StoredRecords == [name : {"a", "b"}, target_dir : {"d", "e"}]

InitStore ==
    /\ iv \in [old : StoredRecords, new : StoredRecords]
    /\ dt = 0
    /\ res = Pending
    /\ HandleIdle
    /\ ArchiveIdle
    /\ RestoreIdle
    /\ DeleteIdle
    /\ json_file = to_writer_pretty(iv.old)
    /\ spc = "open"
    /\ profile_configs = {}

\* store: OpenOptions write, truncate, create; an Err leaves the file alone
StoreOpen ==
    /\ spc = "open"
    /\ \/ json_file' = <<>> /\ spc' = "write"
       \/ UNCHANGED json_file /\ spc' = "done"
    /\ UNCHANGED <<ivars, hvars, avars, rvars, dvars, profile_configs>>

\* store: the BufWriter hands its next tokens to the file, or the write
\* fails and store ends with what was written so far
StoreWrite ==
    /\ spc = "write"
    /\ \/ \E k \in (Len(json_file) + 1)..Len(to_writer_pretty(iv.new)) :
             /\ json_file' = SubSeq(to_writer_pretty(iv.new), 1, k)
             /\ spc' = IF k = Len(to_writer_pretty(iv.new)) THEN "done" ELSE "write"
       \/ UNCHANGED json_file /\ spc' = "done"
    /\ UNCHANGED <<ivars, hvars, avars, rvars, dvars, profile_configs>>

\* ProfileConfig::load in another process, at any moment
LoadStored ==
    /\ ~res.done
    /\ res' = [done |-> TRUE, value |-> from_reader(json_file)]
    /\ UNCHANGED <<iv, dt, hvars, avars, ovars>>

NextStore ==
    \/ StoreOpen
    \/ StoreWrite
    \/ LoadStored

SpecStore == InitStore /\ [][NextStore]_vars

\* C25 as written: a process that loads a profile file while another stores
\* the same profile gets the whole previous record or the whole new record,
\* never an empty or cut-off text.
C25_AsWritten ==
    res.done => res.value \in {Some(iv.old), Some(iv.new)}

\* ---------------------------------------------------------------------
\* reschedule (backupper/src/reschedule.rs)

\* the profile is loaded from its record, whose next_backup the registered
\* trigger carries
InitReschedule ==
    /\ iv = IntervalBuild(KAll, KAll, KAll, KAll, KAll, KAll)
    /\ dt = 0
    /\ res = Pending
    /\ profile \in [interval : HandleIntervals, next_backup : HandleNextBackups]
    /\ disk = profile.next_backup
    /\ trigger = Some(disk)
    /\ now \in HandleClocks
    /\ forced = FALSE
    /\ pc = "reschedule"
    /\ decision = <<FALSE, FALSE>> /\ invoked_at = 0 /\ prev_next_backup = disk
    /\ advanced_at = None /\ backup_result = "none" /\ stored = "none"
    /\ registered = "none" /\ target_dir = "missing" /\ checked_dir = "missing"
    /\ prompts = 0 /\ archives = {} /\ productions = 0
    /\ ArchiveIdle
    /\ OthersIdle

\* reschedule: next_backup is set from the clock and schedule_backup is
\* called; its Err ends reschedule
RescheduleBackup ==
    /\ pc = "reschedule"
    /\ profile' = [profile EXCEPT
                      !.next_backup = get_next_scheduled(profile, Some(now))]
    /\ advanced_at' = Some(now)
    /\ \E ok \in BOOLEAN :
          /\ registered' = IF ok THEN "ok" ELSE "err"
          /\ trigger' = IF ok THEN Some(profile'.next_backup) ELSE trigger
          /\ pc' = IF ok THEN "store" ELSE "done"
    /\ UNCHANGED <<ivars, disk, now, forced, decision, invoked_at,
                   prev_next_backup, backup_result, stored,
                   target_dir, checked_dir, prompts, archives,
                   productions, avars, ovars>>

\* reschedule: profile_config.store, whose Err is printed
RescheduleStore ==
    /\ pc = "store"
    /\ \E ok \in BOOLEAN :
          /\ stored' = IF ok THEN "ok" ELSE "err"
          /\ disk' = IF ok THEN profile.next_backup ELSE disk
    /\ pc' = "done"
    /\ UNCHANGED <<ivars, profile, trigger, now, forced, decision, invoked_at,
                   prev_next_backup, advanced_at, backup_result, registered,
                   target_dir, checked_dir, prompts, archives,
                   productions, avars, ovars>>

NextReschedule ==
    \/ RescheduleBackup
    \/ RescheduleStore

SpecReschedule == InitReschedule /\ [][NextReschedule]_vars

\* C28 as written: when reschedule has returned, whether schedule_backup and
\* store succeeded or one of them failed, the registered trigger fires at the
\* next_backup the stored record carries.
C28_AsWritten ==
    pc = "done" => trigger = Some(disk)

\* ---------------------------------------------------------------------
\* HTTP control plane: create-blank and update-by-id (server/src/api.rs)

\* str::to_lowercase on the names of this model
to_lowercase(name) == IF name = "A" THEN "a" ELSE name

\* ProfileConfig::set_uuid
set_uuid(config, uuid) == [config EXCEPT !.uuid = uuid]

\* the server keeps at most MaxProfiles profiles, with the ids 1..MaxProfiles
MaxProfiles == 3

ProfileNames == {"a", "A", "b"}

\* the bodies of PUT /profiles/uuid/<uuid>: a full record
NewConfigs ==
    [name : ProfileNames, uuid : 1..MaxProfiles,
     interval : {IntervalBuild(KAll, KAll, KAll, KAll, KAll, KAll),
                 [IntervalBuild(KAll, KAll, KAll, KAll, KAll, KAll)
                     EXCEPT !.minutes = SpecifierNew(0, 100, KAll)]}]

InitApi ==
    /\ iv = IntervalBuild(KAll, KAll, KAll, KAll, KAll, KAll)
    /\ dt = 0
    /\ res = Pending
    /\ HandleIdle
    /\ ArchiveIdle
    /\ OthersIdle

\* POST /profiles/create/<name>; res is the status of the response. The
\* uuid of ProfileConfig::new is one no stored profile has.
create_blank_profile_config(name) ==
    /\ \E status \in {"InternalServerError", "Created"} :
          IF status = "InternalServerError"
          THEN \* read_profile_configs or store failed
               /\ res' = [done |-> TRUE, value |-> status]
               /\ UNCHANGED profile_configs
          ELSE IF \E config \in profile_configs :
                     to_lowercase(config.name) = to_lowercase(name)
          THEN /\ res' = [done |-> TRUE, value |-> "Conflict"]
               /\ UNCHANGED profile_configs
          ELSE /\ res' = [done |-> TRUE, value |-> status]
               /\ \E uuid \in 1..MaxProfiles :
                     /\ \A config \in profile_configs : config.uuid # uuid
                     /\ profile_configs' = profile_configs \cup
                           {[name |-> name, uuid |-> uuid,
                             interval |-> IntervalBuild(KNone, KAll, KAll,
                                                        KAll, KAll, KAll)]}
    /\ UNCHANGED <<iv, dt, hvars, avars, rvars, dvars, svars>>

\* PUT /profiles/uuid/<uuid> with the body new_config; res is the status of
\* the response. The reschedule the handler starts when the interval changed
\* rewrites next_backup only, which is not among the fields kept here.
update_profile_config(uuid, new_config) ==
    /\ IF ~IsSome(parse_str(uuid))
       THEN res' = [done |-> TRUE, value |-> "BadRequest"]
            /\ UNCHANGED profile_configs
       ELSE IF validate(new_config.interval) = "Err"
       THEN res' = [done |-> TRUE, value |-> "BadRequest"]
            /\ UNCHANGED profile_configs
       ELSE IF \E config \in profile_configs :
                  /\ config.uuid # new_config.uuid
                  /\ to_lowercase(config.name) = to_lowercase(new_config.name)
       THEN res' = [done |-> TRUE, value |-> "Conflict"]
            /\ UNCHANGED profile_configs
       ELSE IF ~\E config \in profile_configs :
                   config.uuid = Unwrap(parse_str(uuid))
       THEN res' = [done |-> TRUE, value |-> "NotFound"]
            /\ UNCHANGED profile_configs
       ELSE \E ok \in BOOLEAN :
               IF ok
               THEN /\ res' = [done |-> TRUE, value |-> "Ok"]
                    /\ profile_configs' =
                          {config \in profile_configs :
                              config.uuid # Unwrap(parse_str(uuid))}
                          \cup {set_uuid(new_config, Unwrap(parse_str(uuid)))}
               ELSE /\ res' = [done |-> TRUE, value |-> "InternalServerError"]
                    /\ UNCHANGED profile_configs
    /\ UNCHANGED <<iv, dt, hvars, avars, rvars, dvars, svars>>

NextApi ==
    \/ \E name \in ProfileNames : create_blank_profile_config(name)
    \/ \E uuid \in {Uuid(n) : n \in 1..MaxProfiles} \cup {Text(1)},
          new_config \in NewConfigs : update_profile_config(uuid, new_config)

SpecApi == InitApi /\ [][NextApi]_vars

\* C29 as written: after any sequence of create-blank and update-by-id
\* requests, with any id in the path and any id in the body, no two stored
\* profiles have names that are equal ignoring case.
C29_AsWritten ==
    \A p, q \in profile_configs :
        p # q => to_lowercase(p.name) # to_lowercase(q.name)

====
